---- MODULE Spec2Model ----
(***************************************************************************)
(* Model of contanki's binding profiles (src/contanki/profile.py):         *)
(*   - the Profile object: bindings, get/set/remove_binding,               *)
(*     get_inherited_bindings, to_dict and construction from a document;   *)
(*   - the profile store: the user and built-in profile directories, the   *)
(*     controller -> profile association file, find_profile,               *)
(*     create_profile, copy_profile, delete_profile, rename_profile.       *)
(* Spec      drives one Profile object through its methods.                *)
(* StoreSpec drives the profile store through its functions.               *)
(***************************************************************************)
EXTENDS Integers, Sequences, FiniteSets, TLC

VARIABLES
    bindings,      \* Profile.bindings: (state, button) -> action (a defaultdict(str))
    len_buttons,   \* Profile.len_buttons
    op,            \* the last method called on the profile, with its arguments
    ret,           \* what that call returned
    err,           \* the exception that call raised, or "none"
    nops,          \* number of calls made so far
    called,        \* the methods called so far
    user_files,    \* user_profile_path: file name -> profile document
    controllers,   \* the "controllers" file: controller name -> profile name
    sop,           \* the last store function called, with its arguments
    sret,          \* what that call returned
    serr,          \* the exception that call raised, or "none"
    snops,         \* number of store calls made so far
    scalled,       \* the store functions called so far
    returned,      \* controller -> the name find_profile last returned for it
    ident_call,    \* the arguments identify_controller is called with
    ident_ret,     \* what identify_controller returned, and where it returned
    valid_call,    \* the document profile_is_valid is called with
    valid_ret,     \* what profile_is_valid returned, or the exception it raised
    conv_call,     \* the legacy file convert_profile is called with
    conv_ret       \* what convert_profile did: exception, saved name and bindings

pvars == <<bindings, len_buttons, op, ret, err, nops, called>>
svars == <<user_files, controllers, sop, sret, serr, snops, scalled, returned>>
xvars == <<ident_call, ident_ret, valid_call, valid_ret, conv_call, conv_ret>>
vars == <<bindings, len_buttons, op, ret, err, nops, called,
          user_files, controllers, sop, sret, serr, snops, scalled, returned,
          ident_call, ident_ret, valid_call, valid_ret, conv_call, conv_ret>>

(***************************************************************************)
(* Bounds of the exploration.                                              *)
(***************************************************************************)
MaxOps == 2

(***************************************************************************)
(* utils.State: the enumerated application states a binding may be stored  *)
(* under.  "all" is the base layer; "review" the layer shared by question  *)
(* and answer.                                                             *)
(***************************************************************************)
State_args == {"all", "deckBrowser", "overview", "question", "answer",
               "review", "dialog", "config", "NoFocus"}

\* State arguments the calls are made with: the states the resolution rule
\* tells apart, one ordinary state, and one name outside utils.State.
ArgStates == {"all", "review", "question", "answer", "deckBrowser",
              "NoFocus", "bogus"}

\* Button indices the calls are made with.
Buttons == {0, 1}

\* Action names; "" is "no action".
Actions == {"", "Flip Card", "Undo"}

NoAction == ""

(***************************************************************************)
(* str(button) and the inverse coercion of utils.int_keys.                 *)
(***************************************************************************)
str(i) == CASE i = 0 -> "0" [] i = 1 -> "1" [] i = 2 -> "2" [] OTHER -> "n"

int_key(s) == CASE s = "0" -> 0 [] s = "1" -> 1 [] s = "2" -> 2 [] OTHER -> -1

(***************************************************************************)
(* defaultdict(str).__getitem__: a missing key is inserted with "" and ""  *)
(* is returned.                                                            *)
(***************************************************************************)
lookup(b, k) ==
    IF k \in DOMAIN b
    THEN [value |-> b[k], bindings |-> b]
    ELSE [value |-> NoAction, bindings |-> b @@ (k :> NoAction)]

\* A read that inserts nothing, used to state properties.
stored(b, k) == IF k \in DOMAIN b THEN b[k] ELSE NoAction

(***************************************************************************)
(* Profile.get: bindings[(state, button)]                                  *)
(*              or state in ("question", "answer")                         *)
(*                 and bindings[("review", button)]                        *)
(*              or bindings[("all", button)]                               *)
(* evaluated left to right with Python's short-circuit rules; each         *)
(* evaluated subscript is a defaultdict read.                              *)
(***************************************************************************)
\* Faulty variant: the review layer is skipped.
get_without_review(b, state, button) ==
    LET r1 == lookup(b, <<state, button>>) IN
    IF r1.value # NoAction THEN r1
    ELSE lookup(r1.bindings, <<"all", button>>)

get(b, state, button) ==
    LET r1 == lookup(b, <<state, button>>) IN
    IF r1.value # NoAction THEN r1
    ELSE IF state \in {"question", "answer"}
         THEN LET r2 == lookup(r1.bindings, <<"review", button>>) IN
              IF r2.value # NoAction THEN r2
              ELSE lookup(r2.bindings, <<"all", button>>)
         ELSE lookup(r1.bindings, <<"all", button>>)

(***************************************************************************)
(* Profile.update_binding / Profile.set.                                   *)
(***************************************************************************)
\* Faulty variant: the state is not checked.
update_binding_unchecked(b, state, button, action) ==
    [err |-> "none",
     bindings |-> [k \in DOMAIN b \cup {<<state, button>>} |->
                     IF k = <<state, button>> THEN action ELSE b[k]]]

update_binding(b, state, button, action) ==
    IF state \notin State_args
    THEN [err |-> "ValueError", bindings |-> b]
    ELSE [err |-> "none",
          bindings |-> [k \in DOMAIN b \cup {<<state, button>>} |->
                          IF k = <<state, button>> THEN action ELSE b[k]]]

set(b, state, button, action) == update_binding(b, state, button, action)

(***************************************************************************)
(* Profile.remove_binding: del bindings[(state, button)].                  *)
(***************************************************************************)
remove_binding(b, state, button) ==
    IF <<state, button>> \in DOMAIN b
    THEN [err |-> "none",
          bindings |-> [k \in DOMAIN b \ {<<state, button>>} |-> b[k]]]
    ELSE [err |-> "KeyError", bindings |-> b]

(***************************************************************************)
(* Profile.get_inherited_bindings: for the six listed states and every     *)
(* button in range(len_buttons).  The reads are defaultdict reads, done in *)
(* the order of the loops; a read inserts only "" under a key that was     *)
(* missing, so the keys inserted are those read and missing.               *)
(***************************************************************************)
inherited_states == {"deckBrowser", "overview", "question", "answer",
                     "dialog", "config"}

inherited_entry(b, state, button) ==
    LET a == stored(b, <<state, button>>) IN
    IF a # NoAction THEN a
    ELSE IF state \in {"question", "answer"}
         THEN LET c == stored(b, <<"all", button>>) IN
              IF c # NoAction THEN c ELSE stored(b, <<"all", button>>)
         ELSE stored(b, <<"all", button>>)

inherited_reads(b, n) ==
    {<<s, i>> : s \in inherited_states, i \in 0..(n - 1)}
    \cup {<<"all", i>> : i \in {j \in 0..(n - 1) :
            \E s \in inherited_states : stored(b, <<s, j>>) = NoAction}}

get_inherited_bindings(b, n) ==
    [value |-> [s \in inherited_states |->
                  [i \in 0..(n - 1) |-> inherited_entry(b, s, i)]],
     bindings |-> [k \in DOMAIN b \cup inherited_reads(b, n) |-> stored(b, k)]]

(***************************************************************************)
(* Profile.to_dict()["bindings"]: state -> str(button) -> action.          *)
(***************************************************************************)
to_dict(b) ==
    [s \in {k[1] : k \in DOMAIN b} |->
        [t \in {str(k[2]) : k \in {q \in DOMAIN b : q[1] = s}} |->
            b[<<s, int_key(t)>>]]]

(***************************************************************************)
(* Profile.__init__ on a document's "bindings": list(values())[0] needs a  *)
(* first state; empty actions are skipped; (NoFocus, 0) is then set.  The  *)
(* documents are valid ones, whose values are all mappings (line 37).      *)
(***************************************************************************)
Profile_init(d) ==
    IF DOMAIN d = {}
    THEN [err |-> "IndexError", bindings |-> <<>>]
    ELSE LET kept == {<<s, int_key(t)>> : <<s, t>> \in
                        {p \in UNION {{<<x, y>> : y \in DOMAIN d[x]} : x \in DOMAIN d} :
                            d[p[1]][p[2]] # NoAction}}
         IN [err |-> "none",
             bindings |-> [k \in kept \cup {<<"NoFocus", 0>>} |->
                             IF k = <<"NoFocus", 0>> THEN "Focus Main Window"
                             ELSE d[k[1]][str(k[2])]]]

(***************************************************************************)
(* The documents a profile is constructed from: valid documents with a few *)
(* bindings at button 0.                                                   *)
(***************************************************************************)
DocKeys == {<<"all", 0>>, <<"review", 0>>}

Docs == {to_dict(f) : f \in UNION {[D -> Actions] : D \in (SUBSET DocKeys) \ {{}}}}

NoOp == [name |-> "init", state |-> "", button |-> 0, action |-> ""]

ProfileInit ==
    /\ \E d \in Docs : bindings = Profile_init(d).bindings
    /\ len_buttons = 2
    /\ op = NoOp
    /\ ret = NoAction
    /\ err = "none"
    /\ nops = 0
    /\ called = {}

Call_get ==
    \E s \in ArgStates, i \in Buttons :
        \E r \in {get(bindings, s, i)} :
        /\ nops < MaxOps
        /\ bindings' = r.bindings
        /\ ret' = r.value
        /\ err' = "none"
        /\ op' = [name |-> "get", state |-> s, button |-> i, action |-> ""]
        /\ nops' = nops + 1
        /\ called' = called \cup {op'.name}
        /\ UNCHANGED len_buttons

Call_set ==
    \E s \in ArgStates, i \in Buttons, a \in Actions :
        \E r \in {set(bindings, s, i, a)} :
        /\ nops < MaxOps
        /\ bindings' = r.bindings
        /\ ret' = NoAction
        /\ err' = r.err
        /\ op' = [name |-> "set", state |-> s, button |-> i, action |-> a]
        /\ nops' = nops + 1
        /\ called' = called \cup {op'.name}
        /\ UNCHANGED len_buttons

Call_remove_binding ==
    \E s \in ArgStates, i \in Buttons :
        \E r \in {remove_binding(bindings, s, i)} :
        /\ nops < MaxOps
        /\ bindings' = r.bindings
        /\ ret' = NoAction
        /\ err' = r.err
        /\ op' = [name |-> "remove_binding", state |-> s, button |-> i, action |-> ""]
        /\ nops' = nops + 1
        /\ called' = called \cup {op'.name}
        /\ UNCHANGED len_buttons

Call_get_inherited_bindings ==
    \E r \in {get_inherited_bindings(bindings, len_buttons)} :
    /\ nops < MaxOps
    /\ bindings' = r.bindings
    /\ ret' = r.value
    /\ err' = "none"
    /\ op' = [name |-> "get_inherited_bindings", state |-> "", button |-> 0, action |-> ""]
    /\ nops' = nops + 1
    /\ called' = called \cup {op'.name}
    /\ UNCHANGED len_buttons

StoreIdle ==
    /\ user_files = <<>>
    /\ controllers = <<>>
    /\ sop = NoOp
    /\ sret = ""
    /\ serr = "none"
    /\ snops = 0
    /\ scalled = {}
    /\ returned = <<>>

\* identify_controller, profile_is_valid and convert_profile are not called.
Pending == [done |-> FALSE]

IdentIdle == ident_call = Pending /\ ident_ret = Pending

ValidIdle == valid_call = Pending /\ valid_ret = Pending

ConvIdle == conv_call = Pending /\ conv_ret = Pending

Init == ProfileInit /\ StoreIdle /\ IdentIdle /\ ValidIdle /\ ConvIdle

Next ==
    \/ Call_get /\ UNCHANGED <<svars, xvars>>
    \/ Call_set /\ UNCHANGED <<svars, xvars>>
    \/ Call_remove_binding /\ UNCHANGED <<svars, xvars>>
    \/ Call_get_inherited_bindings /\ UNCHANGED <<svars, xvars>>

Spec == Init /\ [][Next]_vars

(***************************************************************************)
(*                          The profile store                              *)
(***************************************************************************)
MaxStoreOps == 2

\* controller.CONTROLLERS: the names of the controller catalogue.
CONTROLLERS == {"DualShock 4", "Xbox 360"}

\* The built-in template a shape selects.
std_name(buttons, axes) ==
    CASE <<buttons, axes>> = <<18, 4>> -> "Standard Gamepad (18 Buttons 4 Axes)"
      [] <<buttons, axes>> = <<16, 4>> -> "Standard Gamepad (16 Buttons 4 Axes)"
      [] <<buttons, axes>> = <<5, 2>> -> "Standard Gamepad (5 Buttons 2 Axes)"
      [] OTHER -> "Standard Gamepad (? Buttons ? Axes)"

(***************************************************************************)
(* utils.slugify: lower-cases, drops what is neither a word character,     *)
(* white space nor a hyphen, and joins the words with "-".  A slug is its  *)
(* own slug, so distinct names share a persistence key.                    *)
(***************************************************************************)
slugify(name) ==
    CASE name = "DualShock 4" -> "dualshock-4"
      [] name = "Pad A" -> "pad-a"
      [] name = "Old Profile" -> "old-profile"
      [] name = "old-profile (converted)" -> "old-profile-converted"
      [] name = "Standard Gamepad (18 Buttons 4 Axes)" -> "standard-gamepad-18-buttons-4-axes"
      [] name = "Standard Gamepad (16 Buttons 4 Axes)" -> "standard-gamepad-16-buttons-4-axes"
      [] name = "Standard Gamepad (5 Buttons 2 Axes)" -> "standard-gamepad-5-buttons-2-axes"
      [] OTHER -> name

\* A profile document: its name, its controller, what its bindings are (named
\* after the profile they were first written for) and whether it passes
\* profile_is_valid's structural checks.
doc(name, controller, body, valid) ==
    [name |-> name, controller |-> controller, body |-> body, valid |-> valid]

\* default_profile_path: the built-in profiles, stored under their names.
default_files ==
    [n \in {"DualShock 4", "Standard Gamepad (18 Buttons 4 Axes)",
            "Standard Gamepad (16 Buttons 4 Axes)"} |->
        doc(n, IF n = "DualShock 4" THEN "DualShock 4" ELSE "Xbox 360", n, TRUE)]

(***************************************************************************)
(* load_profile: the first existing of user/name, default/name,            *)
(* user/slugify(name), default/slugify(name).                              *)
(***************************************************************************)
NotFound == [found |-> FALSE, dir |-> "", key |-> "", doc |-> doc("", "", "", FALSE)]

load_profile(uf, name) ==
    LET slug == slugify(name) IN
    IF name \in DOMAIN uf
    THEN [found |-> TRUE, dir |-> "user", key |-> name, doc |-> uf[name]]
    ELSE IF name \in DOMAIN default_files
    THEN [found |-> TRUE, dir |-> "default", key |-> name, doc |-> default_files[name]]
    ELSE IF slug \in DOMAIN uf
    THEN [found |-> TRUE, dir |-> "user", key |-> slug, doc |-> uf[slug]]
    ELSE IF slug \in DOMAIN default_files
    THEN [found |-> TRUE, dir |-> "default", key |-> slug, doc |-> default_files[slug]]
    ELSE NotFound

\* profile_is_valid on a file or profile name: l is what load_profile found.
loaded_is_valid(name, l) ==
    IF name = "placeholder" THEN FALSE ELSE l.found /\ l.doc.valid

profile_is_valid(uf, name) == loaded_is_valid(name, load_profile(uf, name))

\* get_profile: the loaded profile, or None (found = FALSE).
loaded_or_none(name, l) == IF loaded_is_valid(name, l) THEN l ELSE NotFound

get_profile(uf, name) == loaded_or_none(name, load_profile(uf, name))

\* get_profile_list: the names of the valid profiles among the listed files.
get_profile_list(uf, defaults) ==
    {get_profile(uf, f).doc.name :
        f \in {g \in DOMAIN uf \cup (IF defaults THEN DOMAIN default_files ELSE {}) :
                 profile_is_valid(uf, g)}}

\* Profile.save: the document is written under slugify(name).
save(uf, d) ==
    [k \in DOMAIN uf \cup {slugify(d.name)} |->
        IF k = slugify(d.name) THEN d ELSE uf[k]]

(***************************************************************************)
(* copy_profile: p is what get_profile(name) returned.                     *)
(***************************************************************************)
copy_loaded(uf, p, new_name) ==
    IF ~p.found
    THEN [err |-> "FileNotFoundError", user_files |-> uf, profile |-> p.doc,
          template |-> <<>>, written |-> {}]
    ELSE [err |-> "none",
          user_files |-> save(uf, [p.doc EXCEPT !.name = new_name]),
          profile |-> [p.doc EXCEPT !.name = new_name],
          template |-> <<p.dir, p.key>>, written |-> {slugify(new_name)}]

copy_profile(uf, name, new_name) == copy_loaded(uf, get_profile(uf, name), new_name)

(***************************************************************************)
(* create_profile.                                                         *)
(***************************************************************************)
create_profile(uf, old_name, new_name) ==
    IF new_name \in DOMAIN uf \/ new_name \in DOMAIN default_files
    THEN [err |-> "FileExistsError", user_files |-> uf, profile |-> NotFound.doc,
          template |-> <<>>, written |-> {}]
    ELSE copy_profile(uf, old_name, new_name)

(***************************************************************************)
(* delete_profile.                                                         *)
(***************************************************************************)
delete_profile(uf, name) ==
    IF slugify(name) \in DOMAIN uf
    THEN [err |-> "none",
          user_files |-> [k \in DOMAIN uf \ {slugify(name)} |-> uf[k]]]
    ELSE IF slugify(name) \in DOMAIN default_files
    THEN [err |-> "ValueError", user_files |-> uf]
    ELSE [err |-> "none", user_files |-> uf]

(***************************************************************************)
(* rename_profile (called with a profile name): p is what get_profile      *)
(* returned.                                                               *)
(***************************************************************************)
rename_loaded(uf, p, new_name) ==
    IF ~p.found
    THEN [err |-> "FileNotFoundError", user_files |-> uf]
    ELSE delete_profile(save(uf, [p.doc EXCEPT !.name = new_name]), p.doc.name)

rename_profile(uf, name, new_name) == rename_loaded(uf, get_profile(uf, name), new_name)

(***************************************************************************)
(* update_controllers.                                                     *)
(***************************************************************************)
update_controllers(ctl, controller, profile) ==
    IF profile # ""
    THEN [err |-> "none",
          controllers |-> [c \in DOMAIN ctl \cup {controller} |->
                             IF c = controller THEN profile ELSE ctl[c]]]
    ELSE IF controller \in DOMAIN ctl
    THEN [err |-> "none", controllers |-> [c \in DOMAIN ctl \ {controller} |-> ctl[c]]]
    ELSE [err |-> "KeyError", controllers |-> ctl]

(***************************************************************************)
(* find_profile.  `stale` and `fresh` record what the call found: an       *)
(* association naming no user profile, and neither an association nor a    *)
(* user profile named after the controller.                                *)
(***************************************************************************)
\* Lines 248-254: the template's name, chosen among default_profiles.
choose_template(default_profiles, controller, buttons, axes) ==
    IF controller \in default_profiles THEN controller
    ELSE IF std_name(buttons, axes) \in default_profiles THEN std_name(buttons, axes)
    ELSE "Standard Gamepad (18 Buttons 4 Axes)"

find_template(uf, controller, buttons, axes) ==
    choose_template(get_profile_list(uf, TRUE), controller, buttons, axes)

\* Lines 256-260: cp is what copy_profile returned.
\* Faulty variant: the association is not recorded.
find_profile_created_unrecorded(ctl, controller, cp, stale, fresh) ==
    [err |-> cp.err, ret |-> cp.profile.name, user_files |-> cp.user_files,
     controllers |-> ctl, template |-> cp.template, written |-> cp.written,
     stale |-> stale, fresh |-> fresh]

find_profile_created(ctl, controller, cp, stale, fresh) ==
    IF cp.err # "none"
    THEN [err |-> cp.err, ret |-> "", user_files |-> cp.user_files,
          controllers |-> ctl, template |-> <<>>, written |-> {},
          stale |-> stale, fresh |-> fresh]
    ELSE [err |-> "none", ret |-> cp.profile.name,
          user_files |-> IF controller \in CONTROLLERS
                         THEN save(cp.user_files,
                                   [cp.profile EXCEPT !.controller = controller])
                         ELSE cp.user_files,
          controllers |-> update_controllers(ctl, controller, cp.profile.name).controllers,
          template |-> cp.template, written |-> cp.written,
          stale |-> stale, fresh |-> fresh]

find_profile_create(uf, ctl, controller, buttons, axes, stale, fresh) ==
    find_profile_created(ctl, controller,
        copy_profile(uf, find_template(uf, controller, buttons, axes), controller),
        stale, fresh)

\* Lines 244-260: the controller has no association (left).
find_profile_unbound(uf, ctl, controller, buttons, axes, user_profiles, stale, fresh) ==
    IF controller \in user_profiles
    THEN [err |-> "none", ret |-> controller, user_files |-> uf,
          controllers |-> update_controllers(ctl, controller, controller).controllers,
          template |-> <<>>, written |-> {}, stale |-> stale, fresh |-> fresh]
    ELSE find_profile_create(uf, ctl, controller, buttons, axes, stale, fresh)

\* Lines 238-260, with user_profiles = get_profile_list(defaults=False).
find_profile_with(uf, ctl, controller, buttons, axes, user_profiles) ==
    IF controller \in DOMAIN ctl
    THEN IF ctl[controller] \in user_profiles
         THEN [err |-> "none", ret |-> ctl[controller], user_files |-> uf,
               controllers |-> ctl, template |-> <<>>, written |-> {},
               stale |-> FALSE, fresh |-> FALSE]
         ELSE find_profile_unbound(uf,
                  update_controllers(ctl, controller, "").controllers,
                  controller, buttons, axes, user_profiles, TRUE, FALSE)
    ELSE find_profile_unbound(uf, ctl, controller, buttons, axes, user_profiles,
                              FALSE, controller \notin user_profiles)

find_profile(uf, ctl, controller, buttons, axes) ==
    find_profile_with(uf, ctl, controller, buttons, axes, get_profile_list(uf, FALSE))

(***************************************************************************)
(* The stores the functions are called on, and their arguments.            *)
(***************************************************************************)
\* Controller names find_profile is called with: a catalogue controller with a
\* built-in profile, and two raw device ids that differ only in how they are
\* written.
FindControllers == {"DualShock 4", "Pad A", "pad-a"}

\* Reported (buttons, axes): two shapes with a built-in standard profile and
\* one without.
Shapes == {<<18, 4>>, <<16, 4>>, <<5, 2>>}

\* Names the user gives profiles.
NewNames == {"Pad A", "pad-a", "DualShock 4", "dualshock-4",
             "Standard Gamepad (5 Buttons 2 Axes)"}

\* Names of profiles to copy, rename or delete.
OldNames == {"DualShock 4", "Pad A", "pad-a", "Standard Gamepad (18 Buttons 4 Axes)"}

\* User directories the program leaves behind: every profile is stored under
\* the slug of its name; a file may be left in a format that does not validate;
\* the directory holds the file "placeholder".
placeholder_file == doc("", "", "", FALSE)

InitUserFiles ==
    {[k \in DOMAIN f \cup {"placeholder"} |->
        IF k = "placeholder" THEN placeholder_file ELSE f[k]] :
     f \in UNION {
        {[k \in D |->
            IF k = "pad-a" THEN pa
            ELSE doc("Standard Gamepad (5 Buttons 2 Axes)", "Xbox 360", "custom", TRUE)] :
         pa \in {doc("Pad A", "Xbox 360", "custom", TRUE),
                 doc("pad-a", "Xbox 360", "custom", TRUE),
                 doc("Pad A", "Xbox 360", "custom", FALSE)}} :
        D \in SUBSET {"pad-a", "standard-gamepad-5-buttons-2-axes"}}}

InitControllers ==
    {<<>>} \cup {[c \in {x} |-> n] :
                   x \in {"Pad A", "DualShock 4"},
                   n \in {"Pad A", "pad-a", "Old Profile"}}

NoStoreOp == [name |-> "init", controller |-> "", buttons |-> 0, axes |-> 0,
              old_name |-> "", new_name |-> "", template |-> <<>>, written |-> {},
              stale |-> FALSE, fresh |-> FALSE, created |-> {}, again |-> FALSE]

StoreInit ==
    /\ user_files \in InitUserFiles
    /\ controllers \in InitControllers
    /\ sop = NoStoreOp
    /\ sret = ""
    /\ serr = "none"
    /\ snops = 0
    /\ scalled = {}
    /\ returned = <<>>

ProfileIdle ==
    /\ bindings = <<>>
    /\ len_buttons = 0
    /\ op = NoOp
    /\ ret = NoAction
    /\ err = "none"
    /\ nops = 0
    /\ called = {}

Call_find_profile ==
    \E c \in FindControllers, sh \in Shapes :
        \E r \in {find_profile(user_files, controllers, c, sh[1], sh[2])} :
        /\ snops < MaxStoreOps
        /\ user_files' = r.user_files
        /\ controllers' = r.controllers
        /\ sret' = r.ret
        /\ serr' = r.err
        /\ sop' = [NoStoreOp EXCEPT !.name = "find_profile", !.controller = c,
                     !.buttons = sh[1], !.axes = sh[2], !.template = r.template,
                     !.written = r.written, !.stale = r.stale, !.fresh = r.fresh,
                     !.created = get_profile_list(r.user_files, FALSE)
                                   \ get_profile_list(user_files, FALSE),
                     !.again = /\ sop.name = "find_profile" /\ sop.fresh
                               /\ sop.controller = c
                               /\ sop.buttons = sh[1] /\ sop.axes = sh[2]]
        /\ returned' = IF r.err = "none"
                       THEN [x \in DOMAIN returned \cup {c} |->
                               IF x = c THEN r.ret ELSE returned[x]]
                       ELSE returned
        /\ snops' = snops + 1
        /\ scalled' = scalled \cup {"find_profile"}

Call_create_profile ==
    \E o \in OldNames, n \in NewNames :
        \E r \in {create_profile(user_files, o, n)} :
        /\ snops < MaxStoreOps
        /\ user_files' = r.user_files
        /\ sret' = IF r.err = "none" THEN r.profile.name ELSE ""
        /\ serr' = r.err
        /\ sop' = [NoStoreOp EXCEPT !.name = "create_profile", !.old_name = o,
                     !.new_name = n, !.template = r.template, !.written = r.written]
        /\ snops' = snops + 1
        /\ scalled' = scalled \cup {"create_profile"}
        /\ UNCHANGED <<controllers, returned>>

Call_delete_profile ==
    \E o \in OldNames :
        \E r \in {delete_profile(user_files, o)} :
        /\ snops < MaxStoreOps
        /\ user_files' = r.user_files
        /\ sret' = ""
        /\ serr' = r.err
        /\ sop' = [NoStoreOp EXCEPT !.name = "delete_profile", !.old_name = o]
        /\ snops' = snops + 1
        /\ scalled' = scalled \cup {"delete_profile"}
        /\ UNCHANGED <<controllers, returned>>

Call_rename_profile ==
    \E o \in OldNames, n \in NewNames :
        \E r \in {rename_profile(user_files, o, n)} :
        /\ snops < MaxStoreOps
        /\ user_files' = r.user_files
        /\ sret' = ""
        /\ serr' = r.err
        /\ sop' = [NoStoreOp EXCEPT !.name = "rename_profile", !.old_name = o,
                     !.new_name = n]
        /\ snops' = snops + 1
        /\ scalled' = scalled \cup {"rename_profile"}
        /\ UNCHANGED <<controllers, returned>>

StoreNext ==
    \/ Call_find_profile /\ UNCHANGED <<pvars, xvars>>
    \/ Call_create_profile /\ UNCHANGED <<pvars, xvars>>
    \/ Call_delete_profile /\ UNCHANGED <<pvars, xvars>>
    \/ Call_rename_profile /\ UNCHANGED <<pvars, xvars>>

StoreSpecInit == ProfileIdle /\ StoreInit /\ IdentIdle /\ ValidIdle /\ ConvIdle

StoreSpec == StoreSpecInit /\ [][StoreNext]_vars

(***************************************************************************)
(*                 Controller identification (controller.py)               *)
(* Raw ids are strings; str.lower, the `in` test and re.search are         *)
(* computed character by character.                                        *)
(***************************************************************************)
ascii_uppercase == <<"A", "B", "C", "D", "E", "F", "G", "H", "I", "J", "K", "L", "M",
                     "N", "O", "P", "Q", "R", "S", "T", "U", "V", "W", "X", "Y", "Z">>

ascii_lowercase == <<"a", "b", "c", "d", "e", "f", "g", "h", "i", "j", "k", "l", "m",
                     "n", "o", "p", "q", "r", "s", "t", "u", "v", "w", "x", "y", "z">>

digits == <<"0", "1", "2", "3", "4", "5", "6", "7", "8", "9">>

\* The characters the pattern \w matches.
word_chars ==
    {ascii_uppercase[i] : i \in 1..26} \cup {ascii_lowercase[i] : i \in 1..26}
    \cup {digits[i] : i \in 1..10} \cup {"_"}

lower_char(c) ==
    IF \E i \in 1..26 : ascii_uppercase[i] = c
    THEN ascii_lowercase[CHOOSE i \in 1..26 : ascii_uppercase[i] = c]
    ELSE c

\* str.lower()
RECURSIVE lower(_)
lower(s) ==
    IF Len(s) = 0 THEN ""
    ELSE lower_char(SubSeq(s, 1, 1)) \o lower(SubSeq(s, 2, Len(s)))

\* kw in s
contains(s, kw) ==
    \E i \in 1..(Len(s) - Len(kw) + 1) : SubSeq(s, i, i + Len(kw) - 1) = kw

\* re.search(label + r" (\w{4})", s): the positions at which the pattern
\* matches, and group(1).lower() of the first match, "" when there is none.
search_matches(s, label) ==
    {i \in 1..(Len(s) - Len(label) - 4) :
        /\ SubSeq(s, i, i + Len(label)) = label \o " "
        /\ \A j \in 1..4 :
             SubSeq(s, i + Len(label) + j, i + Len(label) + j) \in word_chars}

search_group(s, label, matches) ==
    IF matches = {} THEN ""
    ELSE lower(SubSeq(s, Len(label) + 1 + CHOOSE i \in matches : \A j \in matches : i <= j,
                         Len(label) + 4 + CHOOSE i \in matches : \A j \in matches : i <= j))

\* parse_controller_id: (vendor_id, device_id), "" standing for None.
parse_controller_id(controller_id) ==
    <<search_group(controller_id, "Vendor:", search_matches(controller_id, "Vendor:")),
      search_group(controller_id, "Product:", search_matches(controller_id, "Product:"))>>

\* controller_name_tuple
controller_name_tuple(name, buttons) ==
    <<name, name \o " (" \o ToString(buttons) \o " buttons)">>

(***************************************************************************)
(* controllerIDs.json, "devices": vendor -> product -> a catalogue name, a *)
(* name the catalogue does not have, or "invalid".                         *)
(***************************************************************************)
controller_ids ==
    [v \in {"054c", "045e", "2dc8", "046d", "057e"} |->
        CASE v = "054c" -> [p \in {"05c4"} |-> "DualShock 4"]
          [] v = "045e" -> [p \in {"028e"} |-> "Xbox 360"]
          [] v = "2dc8" -> [p \in {"6101"} |-> "8BitDo SN30 Pro"]
          [] v = "046d" -> [p \in {"c216"} |-> "Logitech Dual Action"]
          [] v = "057e" -> [p \in {"200e"} |-> "invalid"]]

\* controller_ids["devices"][vendor_id][device_id]; KeyError when either
\* subscript is missing (None included).
\* Faulty variant: the two subscripts are taken in the wrong order.
device_lookup_swapped(vendor_id, device_id) ==
    IF device_id \in DOMAIN controller_ids
    THEN IF vendor_id \in DOMAIN controller_ids[device_id]
         THEN [err |-> "none", name |-> controller_ids[device_id][vendor_id]]
         ELSE [err |-> "KeyError", name |-> ""]
    ELSE [err |-> "KeyError", name |-> ""]

device_lookup(vendor_id, device_id) ==
    IF vendor_id \in DOMAIN controller_ids
    THEN IF device_id \in DOMAIN controller_ids[vendor_id]
         THEN [err |-> "none", name |-> controller_ids[vendor_id][device_id]]
         ELSE [err |-> "KeyError", name |-> ""]
    ELSE [err |-> "KeyError", name |-> ""]

(***************************************************************************)
(* identify_controller, lines 153-200: the free-text rules on the          *)
(* lower-cased id.  `rule` names the branch entered, "none" when the id    *)
(* enters no branch; device_name is the name held when the rules start.    *)
(***************************************************************************)
\* Lines 174-182: three statements, the last with an else, so the names the
\* first two assign are overwritten by the third.
joycon_name(id_, device_name) ==
    LET after_pro == IF contains(id_, "pro") THEN "Switch Pro" ELSE device_name
        after_left == IF contains(id_, "left") THEN "Joy-Con Left" ELSE after_pro
    IN IF contains(id_, "right") THEN "Joy-Con Right" ELSE "Joy-Con"

free_text(id_, buttons, device_name) ==
    IF contains(id_, "dualshock") \/ contains(id_, "playstation") \/ contains(id_, "sony")
    THEN [rule |-> "sony",
          name |-> IF buttons = 17 THEN "DualShock 3"
                   ELSE IF contains(id_, "dualsense") THEN "DualSense"
                   ELSE IF buttons = 18 THEN "DualShock 4"
                   ELSE device_name]
    ELSE IF contains(id_, "xbox") \/ contains(id_, "microsoft")
    THEN [rule |-> "xbox",
          name |-> IF contains(id_, "360") \/ contains(id_, "adaptive") THEN "Xbox 360"
                   ELSE IF contains(id_, "one") THEN "Xbox One"
                   ELSE IF contains(id_, "series") \/ contains(id_, "elite")
                        THEN "Xbox Series"
                   ELSE IF buttons = 17 THEN "Xbox 360"
                   ELSE "Xbox Series"]
    ELSE IF contains(id_, "joycon") \/ contains(id_, "joy-con") \/ contains(id_, "switch")
    THEN [rule |-> "joycon", name |-> joycon_name(id_, device_name)]
    ELSE IF contains(id_, "steam") \/ contains(id_, "valve")
    THEN [rule |-> "steam", name |-> "Steam Controller"]
    ELSE IF contains(id_, "8bitdo")
    THEN [rule |-> "8bitdo",
          name |-> IF contains(id_, "zero")
                   THEN IF buttons = 17 THEN "8BitDo Zero (X Input)"
                        ELSE "8BitDo Zero (D Input)"
                   ELSE IF contains(id_, "lite") THEN "8BitDo Lite"
                   ELSE IF contains(id_, "pro") THEN "8BitDo Pro"
                   ELSE device_name]
    ELSE IF contains(id_, "ps3")
    THEN [rule |-> "ps3", name |-> "DualShock 3"]
    ELSE IF contains(id_, "ps4")
    THEN [rule |-> "ps4", name |-> "DualShock 4"]
    ELSE IF contains(id_, "ps5") \/ contains(id_, "dualsense")
    THEN [rule |-> "ps5", name |-> "DualSense"]
    ELSE [rule |-> "none", name |-> device_name]

(***************************************************************************)
(* identify_controller.  `value` is the tuple returned, <<>> for None;     *)
(* `step` is the return statement reached and `rule` the free-text branch  *)
(* entered.                                                                *)
(***************************************************************************)
None == <<>>

\* Line 202, f being what the free-text rules gave.
identify_named(f, buttons) ==
    [value |-> controller_name_tuple(f.name, buttons), step |-> "free-text",
     rule |-> f.rule]

identify_free_text(id_, buttons, device_name) ==
    identify_named(free_text(lower(id_), buttons, device_name), buttons)

\* Lines 146-151, l being the outcome of the database subscript.
identify_looked_up(id_, buttons, l) ==
    IF l.err = "KeyError" THEN identify_free_text(id_, buttons, id_)
    ELSE IF l.name \in CONTROLLERS
    THEN [value |-> controller_name_tuple(l.name, buttons), step |-> "database",
          rule |-> "none"]
    ELSE IF l.name = "invalid"
    THEN [value |-> None, step |-> "database", rule |-> "none"]
    ELSE identify_free_text(id_, buttons, l.name)

\* Lines 124-151, ids being what parse_controller_id returned.
identify_parsed(id_, buttons, ebd, ids) ==
    IF id_ = "Joy-Con (L/R) (STANDARD GAMEPAD)"
    THEN [value |-> None, step |-> "duplicate", rule |-> "none"]
    ELSE IF ebd /\ ids \in {<<"054c", "05c4">>, <<"045e", "028e">>}
    THEN [value |-> controller_name_tuple("8BitDo Pro", buttons), step |-> "override",
          rule |-> "none"]
    ELSE IF ebd /\ ids = <<"045e", "02e0">>
    THEN [value |-> controller_name_tuple("8BitDo Zero (X Input)", buttons),
          step |-> "override", rule |-> "none"]
    ELSE IF ids[1] = "2dc8" \/ ~contains(lower(id_), "8bitdo")
    THEN identify_looked_up(id_, buttons, device_lookup(ids[1], ids[2]))
    ELSE identify_free_text(id_, buttons, id_)

identify_controller(id_, buttons, num_axes, ebd) ==
    identify_parsed(id_, buttons, ebd, parse_controller_id(id_))

(***************************************************************************)
(* The device descriptors identify_controller is called with.              *)
(***************************************************************************)
\* The free text of a raw id.
IdTexts == {"", "Wireless Controller", "Sony DualSense Wireless Controller",
            "Sony Interactive Entertainment Wireless Controller",
            "PLAYSTATION(R)3 Controller", "Xbox 360 Controller",
            "Xbox Wireless Controller", "Microsoft Controller One",
            "Nintendo Switch Pro Controller", "Nintendo Switch Left Joy-Con",
            "Nintendo Switch Right Joy-Con", "Joy-Con L+R",
            "Joy-Con (L/R) (STANDARD GAMEPAD)", "Steam Controller",
            "8BitDo Pro 2", "8Bitdo Zero 2 gamepad", "8BitDo Lite gamepad",
            "PS4 Controller", "DualSense PS5", "Logitech Dual Action"}

\* The vendor and product part of a raw id: absent, pairs the database has,
\* pairs it has not, upper-case digits, and a token of three characters.
IdCodes == {"", "Vendor: 054c Product: 05c4", "Vendor: 045e Product: 028e",
            "Vendor: 045e Product: 02e0", "Vendor: 2dc8 Product: 6101",
            "Vendor: 046d Product: c216", "Vendor: 057e Product: 200e",
            "Vendor: 054C Product: 05C4", "Vendor: 54c Product: 05c4"}

raw_id(text, code) ==
    IF code = "" THEN text
    ELSE IF text = "" THEN code
    ELSE text \o " (STANDARD GAMEPAD " \o code \o ")"

\* Reported button counts.
ButtonCounts == {16, 17, 18}

IdentInit ==
    /\ \E text \in IdTexts, code \in IdCodes, n \in ButtonCounts, ebd \in BOOLEAN :
          ident_call = [done |-> FALSE, id_ |-> raw_id(text, code), buttons |-> n,
                        num_axes |-> 4, ebd |-> ebd]
    /\ ident_ret = Pending

Call_identify_controller ==
    \E r \in {identify_controller(ident_call.id_, ident_call.buttons,
                                  ident_call.num_axes, ident_call.ebd)} :
        /\ ~ident_call.done
        /\ ident_call' = [ident_call EXCEPT !.done = TRUE]
        /\ ident_ret' = [done |-> TRUE, value |-> r.value, step |-> r.step,
                         rule |-> r.rule]
        /\ UNCHANGED <<valid_call, valid_ret, conv_call, conv_ret>>

IdentNext == Call_identify_controller /\ UNCHANGED <<pvars, svars>>

IdentSpecInit == ProfileIdle /\ StoreIdle /\ IdentInit /\ ValidIdle /\ ConvIdle

IdentSpec == IdentSpecInit /\ [][IdentNext]_vars

(***************************************************************************)
(*              profile_is_valid on a document (profile.py)                *)
(* A document is a mapping from keys to values; a value of "bindings" is a *)
(* mapping from states to values tagged with their Python type.            *)
(***************************************************************************)
required_keys == <<"name", "size", "controller", "quick_select", "bindings",
                   "axes_bindings">>

\* A value of "bindings": the dict `items`, or a list whose one element is
\* the dict `items` (the legacy format).
dict_value(items) == [type |-> "dict", items |-> items]

list_value(items) == [type |-> "list", items |-> items]

\* Lines 305-316: the first required key the document lacks raises KeyError
\* when the message reads profile['name'] and "name" is missing, and returns
\* False otherwise.
missing_key(profile) ==
    IF \A i \in DOMAIN required_keys : required_keys[i] \in DOMAIN profile
    THEN "none"
    ELSE IF "name" \in DOMAIN profile THEN "False" ELSE "KeyError"

\* Lines 317-323: every state is in utils.State and every value is a dict.
bindings_are_valid(b) ==
    \A state \in DOMAIN b : state \in State_args /\ b[state].type = "dict"

\* Lines 324-328: Controller(profile["controller"]) raises ValueError for a
\* name the catalogue does not have.
controller_is_known(controller) == controller \in CONTROLLERS

\* Lines 329-333: Profile(profile) raises or not.
profile_constructs(b) == Profile_init([state \in DOMAIN b |-> b[state].items]).err = "none"

\* Lines 299-334, for a document that is a dict: the value returned and the
\* exception raised.
profile_is_valid_checked(profile, missing) ==
    IF missing = "KeyError" THEN [value |-> FALSE, err |-> "KeyError"]
    ELSE IF missing = "False" THEN [value |-> FALSE, err |-> "none"]
    ELSE IF ~bindings_are_valid(profile["bindings"])
    THEN [value |-> FALSE, err |-> "none"]
    ELSE IF ~controller_is_known(profile["controller"])
    THEN [value |-> FALSE, err |-> "none"]
    ELSE IF ~profile_constructs(profile["bindings"])
    THEN [value |-> FALSE, err |-> "none"]
    ELSE [value |-> TRUE, err |-> "none"]

profile_is_valid_dict(profile) == profile_is_valid_checked(profile, missing_key(profile))

\* get_profile_list over a directory holding the one document: the names
\* listed, or the exception profile_is_valid raised (line 157; convert_profiles
\* calls profile_is_valid the same way, outside its try, line 341).
get_profile_list_of(profile, v) ==
    IF v.err # "none" THEN [names |-> {}, err |-> v.err]
    ELSE IF v.value THEN [names |-> {profile["name"]}, err |-> "none"]
    ELSE [names |-> {}, err |-> "none"]

(***************************************************************************)
(* The documents profile_is_valid is called with.                          *)
(***************************************************************************)
\* "bindings" values: a valid one, one with a state outside utils.State, a
\* legacy one whose values are lists, one with no state at all.
DocBindings ==
    {[state \in {"all"} |-> dict_value([t \in {"0"} |-> "Flip Card"])],
     [state \in {"all", "review"} |-> dict_value([t \in {"0"} |-> "Undo"])],
     [state \in {"all", "bogus"} |-> dict_value([t \in {"0"} |-> "Flip Card"])],
     [state \in {"all"} |-> list_value([t \in {"0"} |-> "mod"])],
     <<>>}

\* "controller" values: two catalogue names and a name the catalogue lacks.
DocControllers == {"DualShock 4", "Xbox 360", "Unknown Pad"}

full_document(b, c) ==
    [k \in {required_keys[i] : i \in DOMAIN required_keys} |->
        CASE k = "name" -> "Pad A"
          [] k = "size" -> <<18, 4>>
          [] k = "controller" -> c
          [] k = "quick_select" -> <<>>
          [] k = "bindings" -> b
          [] k = "axes_bindings" -> <<>>]

\* The full documents and the documents lacking one required key.
Documents ==
    {[k \in DOMAIN d \ missing |-> d[k]] :
        d \in {full_document(b, c) : b \in DocBindings, c \in DocControllers},
        missing \in {{}} \cup {{required_keys[i]} : i \in DOMAIN required_keys}}

ValidInit ==
    /\ \E d \in Documents : valid_call = [done |-> FALSE, profile |-> d]
    /\ valid_ret = Pending

Call_profile_is_valid ==
    \E v \in {profile_is_valid_dict(valid_call.profile)} :
        /\ ~valid_call.done
        /\ valid_call' = [valid_call EXCEPT !.done = TRUE]
        /\ valid_ret' = [done |-> TRUE, value |-> v.value, err |-> v.err,
                         list |-> get_profile_list_of(valid_call.profile, v)]
        /\ UNCHANGED <<ident_call, ident_ret, conv_call, conv_ret>>

ValidNext == Call_profile_is_valid /\ UNCHANGED <<pvars, svars>>

ValidSpecInit == ProfileIdle /\ StoreIdle /\ IdentIdle /\ ValidInit /\ ConvIdle

ValidSpec == ValidSpecInit /\ [][ValidNext]_vars

(***************************************************************************)
(*                    convert_profile (profile.py)                         *)
(* The legacy file's "bindings" map each state to a list holding one dict. *)
(* The dicts keep their JSON keys ("0", "1") until Profile.__init__        *)
(* coerces them.                                                           *)
(***************************************************************************)
\* Line 363: {state: _bindings[0] for state, _bindings in bindings.items()}
flatten(b) == [state \in DOMAIN b |-> b[state].items]

\* The (state, index) pairs bound to the legacy action "mod".
mod_keys(flat) ==
    UNION {{<<state, t>> : t \in {u \in DOMAIN flat[state] : flat[state][u] = "mod"}} :
           state \in DOMAIN flat}

\* Lines 365-369: every "mod" is replaced by ""; i is the index of the last
\* "mod" the loops met, which depends on the order the file lists them in.
without_mod(flat) ==
    [state \in DOMAIN flat |->
        [t \in DOMAIN flat[state] |->
            IF flat[state][t] = "mod" THEN NoAction ELSE flat[state][t]]]

\* Lines 364-371, i being "" for None.
convert_bindings(flat, i) ==
    IF i = "" THEN [err |-> "none", bindings |-> flat]
    ELSE IF "all" \notin DOMAIN flat
    THEN [err |-> "KeyError", bindings |-> without_mod(flat)]
    ELSE [err |-> "none",
          bindings |-> [state \in DOMAIN flat |->
                          IF state = "all"
                          THEN [t \in DOMAIN flat["all"] \cup {i} |->
                                  IF t = i THEN "Toggle Quick Select"
                                  ELSE without_mod(flat)["all"][t]]
                          ELSE without_mod(flat)[state]]]

\* The values i can have after the loops: None when nothing is bound to
\* "mod", else the index of one of the "mod" bindings.
last_mod_index(flat) ==
    IF mod_keys(flat) = {} THEN {""} ELSE {k[2] : k \in mod_keys(flat)}

\* Line 360: shutil.move(path, path + " (converted)").
moved(uf, old_file, new_file) ==
    [k \in (DOMAIN uf \ {old_file}) \cup {new_file} |->
        IF k = new_file THEN uf[old_file] ELSE uf[k]]

NotConverted(uf, ctl, e) ==
    [err |-> e, user_files |-> uf, controllers |-> ctl, saved |-> FALSE,
     name |-> "", bindings |-> <<>>]

\* Lines 374-381: t is the profile find_profile named, p the profile built
\* from it with the converted bindings.
convert_saved(uf, ctl, t, name, body, p) ==
    IF ~t.found THEN NotConverted(uf, ctl, "AttributeError")
    ELSE IF p.err # "none" THEN NotConverted(uf, ctl, p.err)
    ELSE [err |-> IF profile_is_valid(save(uf, doc(name, t.doc.controller, body, TRUE)),
                                      name)
                  THEN "none" ELSE "AssertionError",
          user_files |-> save(uf, doc(name, t.doc.controller, body, TRUE)),
          controllers |-> ctl, saved |-> TRUE, name |-> name,
          bindings |-> to_dict(p.bindings)]

\* Lines 373-381: r is what find_profile did.
convert_found(r, name, body, b) ==
    IF r.err # "none" THEN NotConverted(r.user_files, r.controllers, r.err)
    ELSE convert_saved(r.user_files, r.controllers, get_profile(r.user_files, r.ret),
                       name, body, Profile_init(b))

\* Lines 359-381: uf is the directory after the move, cb the converted
\* bindings.
convert_moved(uf, ctl, name, legacy, size, cb) ==
    IF cb.err # "none" THEN NotConverted(uf, ctl, cb.err)
    ELSE convert_found(find_profile(uf, ctl, legacy.controller, size[1], size[2]),
                       name, legacy.body, cb.bindings)

\* convert_profile(old_profile), the file holding `b` as its "bindings" and
\* `size` as its "size".
convert_profile(uf, ctl, old_profile, b, size, i) ==
    IF old_profile \notin DOMAIN uf THEN NotConverted(uf, ctl, "none")
    ELSE IF profile_is_valid(uf, old_profile \o " (converted)")
    THEN NotConverted(uf, ctl, "none")
    ELSE convert_moved(moved(uf, old_profile, old_profile \o " (converted)"), ctl,
                       old_profile \o " (converted)", uf[old_profile], size,
                       convert_bindings(flatten(b), i))

(***************************************************************************)
(* The legacy files convert_profile is called with.                        *)
(***************************************************************************)
LegacyActions == {"", "mod", "Flip Card"}

LegacyStates == {{"all"}, {"all", "question"}}

\* Legacy "bindings": every state maps to a list holding one dict.
LegacyBindings ==
    UNION {[S -> {list_value(f) : f \in [{"0", "1"} -> LegacyActions]}] :
           S \in LegacyStates}

\* The controller a legacy file names.
LegacyControllers == {"DualShock 4", "Pad A"}

ConvInit ==
    /\ \E b \in LegacyBindings, c \in LegacyControllers :
          /\ conv_call = [done |-> FALSE, old_profile |-> "old-profile",
                          bindings |-> b, size |-> <<18, 4>>]
          /\ user_files = [k \in {"old-profile", "placeholder"} |->
                             IF k = "placeholder" THEN placeholder_file
                             ELSE doc("Old Profile", c, "Old Profile", FALSE)]
    /\ conv_ret = Pending
    /\ controllers = <<>>
    /\ sop = NoOp
    /\ sret = ""
    /\ serr = "none"
    /\ snops = 0
    /\ scalled = {}
    /\ returned = <<>>

Call_convert_profile ==
    \E i \in last_mod_index(flatten(conv_call.bindings)) :
        \E r \in {convert_profile(user_files, controllers, conv_call.old_profile,
                                  conv_call.bindings, conv_call.size, i)} :
        /\ ~conv_call.done
        /\ conv_call' = [conv_call EXCEPT !.done = TRUE]
        /\ conv_ret' = [done |-> TRUE, err |-> r.err, saved |-> r.saved,
                        name |-> r.name, bindings |-> r.bindings, i |-> i]
        /\ user_files' = r.user_files
        /\ controllers' = r.controllers
        /\ UNCHANGED <<sop, sret, serr, snops, scalled, returned>>
        /\ UNCHANGED <<ident_call, ident_ret, valid_call, valid_ret>>

ConvNext == Call_convert_profile /\ UNCHANGED pvars

ConvSpecInit == ProfileIdle /\ IdentIdle /\ ValidIdle /\ ConvInit

ConvSpec == ConvSpecInit /\ [][ConvNext]_vars

(***************************************************************************)
(* Properties of the Profile object.                                       *)
(***************************************************************************)
first_non_empty(seq) ==
    IF \E j \in DOMAIN seq : seq[j] # NoAction
    THEN seq[CHOOSE j \in DOMAIN seq :
                /\ seq[j] # NoAction
                /\ \A h \in DOMAIN seq : h < j => seq[h] = NoAction]
    ELSE NoAction

\* The value the layering rule gives (state, button): exact, then review for
\* question and answer, then all, else "".
layered(b, state, button) ==
    first_non_empty(
        IF state \in {"question", "answer"}
        THEN <<stored(b, <<state, button>>), stored(b, <<"review", button>>),
               stored(b, <<"all", button>>)>>
        ELSE <<stored(b, <<state, button>>), stored(b, <<"all", button>>)>>)

\* What remains of the layering rule once the exact binding is gone.
inherited(b, state, button) ==
    first_non_empty(
        IF state \in {"question", "answer"}
        THEN <<stored(b, <<"review", button>>), stored(b, <<"all", button>>)>>
        ELSE <<stored(b, <<"all", button>>)>>)

\* C1: get(state, index) returns the first non-empty of the exact binding, the
\* review binding (for question and answer only), the all binding, else "".
C1_GetResolutionOrder ==
    op.name = "get" => ret = layered(bindings, op.state, op.button)

\* C1 witness: question is overridden, answer is not, and get(answer, i) has
\* returned the review binding while an all binding is also stored.
C1_Witness ==
    /\ op.name = "get"
    /\ op.state = "answer"
    /\ stored(bindings, <<"question", op.button>>) # NoAction
    /\ stored(bindings, <<"answer", op.button>>) = NoAction
    /\ stored(bindings, <<"review", op.button>>) # NoAction
    /\ stored(bindings, <<"all", op.button>>) # NoAction
    /\ stored(bindings, <<"all", op.button>>) # stored(bindings, <<"review", op.button>>)
    /\ ret = stored(bindings, <<"review", op.button>>)

\* C2: every entry get_inherited_bindings() lists equals what get(state, index)
\* returns for the same profile, the review fallback of question and answer
\* included.  (The claim also asks for an entry for every enumerated state;
\* this is the part of it about the entries that are listed.)
C2_InheritedEqualsGet ==
    op.name = "get_inherited_bindings" =>
        \A s \in DOMAIN ret : \A i \in DOMAIN ret[s] :
            ret[s][i] = get(bindings, s, i).value

\* C3: set with a state outside utils.State raises and leaves bindings as they
\* were; with a state inside it writes exactly the (state, index) binding.
C3_SetRejectsOrWrites ==
    [][(nops' = nops + 1 /\ op'.name = "set") =>
         LET k == <<op'.state, op'.button>> IN
         IF op'.state \notin State_args
         THEN err' = "ValueError" /\ bindings' = bindings
         ELSE /\ err' = "none"
              /\ DOMAIN bindings' = DOMAIN bindings \cup {k}
              /\ bindings'[k] = op'.action
              /\ \A q \in DOMAIN bindings \ {k} : bindings'[q] = bindings[q]]_vars

\* C3 witness: set was called with a state outside utils.State and raised.
C3_Witness ==
    /\ op.name = "set"
    /\ op.state \notin State_args
    /\ op.action # NoAction
    /\ err = "ValueError"

\* C4: every state key of bindings (hence of to_dict()["bindings"]) belongs to
\* utils.State, whatever calls were made.
C4_StateKeysEnumerated ==
    DOMAIN to_dict(bindings) \subseteq State_args

\* Two serialized bindings agree on everything but the (NoFocus, "0") entry.
same_except_nofocus0(d1, d2) ==
    /\ DOMAIN d1 \ {"NoFocus"} = DOMAIN d2 \ {"NoFocus"}
    /\ \A s \in DOMAIN d1 \cup DOMAIN d2 :
         LET k1 == IF s \in DOMAIN d1 THEN DOMAIN d1[s] ELSE {}
             k2 == IF s \in DOMAIN d2 THEN DOMAIN d2[s] ELSE {}
             skip == IF s = "NoFocus" THEN {"0"} ELSE {}
         IN /\ k1 \ skip = k2 \ skip
            /\ \A t \in (k1 \cap k2) \ skip : d1[s][t] = d2[s][t]

\* C5: for a profile reached by get, set and remove_binding calls,
\* Profile(p.to_dict()).to_dict() equals p.to_dict() but for (NoFocus, 0).
C5_RoundTrip ==
    called \subseteq {"get", "set", "remove_binding"} =>
        LET d == to_dict(bindings)
            p == Profile_init(d)
        IN /\ p.err = "none"
           /\ same_except_nofocus0(to_dict(p.bindings), d)

\* C6: remove_binding(state, index) succeeds for every (state, index), stored or
\* not, leaves no explicit override, and the next get returns the inherited
\* value.
C6_RemoveExposesInherited ==
    op.name = "remove_binding" =>
        /\ err = "none"
        /\ <<op.state, op.button>> \notin DOMAIN bindings
        /\ get(bindings, op.state, op.button).value
             = inherited(bindings, op.state, op.button)


(***************************************************************************)
(* Properties of the profile store.                                        *)
(***************************************************************************)
\* The user files that hold a valid profile named n.
user_profiles_named(uf, n) ==
    {k \in DOMAIN uf : profile_is_valid(uf, k) /\ get_profile(uf, k).doc.name = n}

\* C7: when find_profile(c, b, a) is called twice in a row and the first call
\* found neither an association nor a user profile for c, the first call
\* created exactly the profile named c, and the second returns the same name
\* and writes nothing: no file, no new profile, no change to the store.
C7_FindProfileIdempotent ==
    [][(/\ snops' = snops + 1
        /\ sop.name = "find_profile" /\ sop.fresh
        /\ sop'.name = "find_profile"
        /\ sop'.controller = sop.controller
        /\ sop'.buttons = sop.buttons /\ sop'.axes = sop.axes)
       => /\ serr = "none" /\ serr' = "none"
          /\ sop.created = {sop.controller}
          /\ sret' = sret
          /\ sop'.written = {} /\ sop'.created = {}
          /\ user_files' = user_files
          /\ controllers' = controllers]_vars

\* C7 witness: the second of two identical find_profile calls for a controller
\* never seen before has returned the controller's name.
C7_Witness ==
    /\ sop.name = "find_profile"
    /\ sop.again
    /\ sret = sop.controller
    /\ sop.written = {}
    /\ Cardinality(user_profiles_named(user_files, sret)) = 1

\* C8: after any sequence of find_profile calls, each returned name is the name
\* of exactly one existing user profile and the association record maps the
\* controller to it.
C8_ReturnedNamesExist ==
    scalled \subseteq {"find_profile"} =>
        \A c \in DOMAIN returned :
            /\ Cardinality(user_profiles_named(user_files, returned[c])) = 1
            /\ c \in DOMAIN controllers
            /\ controllers[c] = returned[c]

\* The built-in template C9 names for a controller and shape.
built_in_template(controller, buttons, axes) ==
    IF controller \in DOMAIN default_files THEN controller
    ELSE IF std_name(buttons, axes) \in DOMAIN default_files
         THEN std_name(buttons, axes)
         ELSE "Standard Gamepad (18 Buttons 4 Axes)"

\* C9: when find_profile creates a profile, it copies the built-in profile named
\* after the controller, else the built-in standard profile of the reported
\* shape, else "Standard Gamepad (18 Buttons 4 Axes)", and names the copy after
\* the controller.
C9_TemplateIsBuiltIn ==
    (sop.name = "find_profile" /\ sop.written # {}) =>
        LET t == built_in_template(sop.controller, sop.buttons, sop.axes) IN
        /\ sop.template = <<"default", t>>
        /\ slugify(sop.controller) \in DOMAIN user_files
        /\ user_files[slugify(sop.controller)].name = sop.controller
        /\ user_files[slugify(sop.controller)].body = default_files[t].body

\* new_name's persisted key is that of an existing user or built-in profile.
key_collides(uf, new_name) ==
    \/ slugify(new_name) \in DOMAIN uf /\ profile_is_valid(uf, slugify(new_name))
    \/ new_name \in DOMAIN default_files \/ slugify(new_name) \in DOMAIN default_files

\* C10: create_profile(old_name, new_name) raises and overwrites nothing
\* whenever new_name's persisted key collides with an existing user or
\* built-in profile.
C10_CreateRejectsKeyCollision ==
    [][(/\ snops' = snops + 1
        /\ sop'.name = "create_profile"
        /\ key_collides(user_files, sop'.new_name))
       => /\ serr' = "FileExistsError"
          /\ user_files' = user_files]_vars

\* C11: delete_profile on the name of a built-in profile (no user profile has
\* that name) raises and changes nothing; on the name of an existing user
\* profile it removes exactly the file of that profile.
C11_DeleteBuiltInRaises ==
    [][(snops' = snops + 1 /\ sop'.name = "delete_profile") =>
         LET n == sop'.old_name
             mine == user_profiles_named(user_files, n)
         IN /\ (n \in DOMAIN default_files /\ mine = {})
                  => (serr' = "ValueError" /\ user_files' = user_files)
            /\ (n \notin DOMAIN default_files /\ mine # {})
                  => /\ serr' = "none"
                     /\ DOMAIN user_files' = DOMAIN user_files \ mine
                     /\ \A k \in DOMAIN user_files' : user_files'[k] = user_files[k]]_vars

\* C20: rename_profile(p, new_name) on an existing user profile leaves a user
\* profile named new_name with the same bindings, also when new_name is the old
\* name or has the same persistence key; and when the keys differ the old
\* document is gone.
C20_RenameKeepsProfile ==
    [][(/\ snops' = snops + 1
        /\ sop'.name = "rename_profile"
        /\ get_profile(user_files, sop'.old_name).found
        /\ get_profile(user_files, sop'.old_name).dir = "user")
       => LET old == get_profile(user_files, sop'.old_name) IN
          /\ serr' = "none"
          /\ \E k \in user_profiles_named(user_files', sop'.new_name) :
                user_files'[k].body = old.doc.body
          /\ slugify(sop'.new_name) # old.key => old.key \notin DOMAIN user_files']_vars

\* C19: get and get_inherited_bindings are pure queries: for every argument,
\* unmapped keys and states outside utils.State included, the profile's
\* to_dict() output after the call is its to_dict() output before the call.
C19_QueriesArePure ==
    [][(nops' = nops + 1 /\ op'.name \in {"get", "get_inherited_bindings"})
         => to_dict(bindings') = to_dict(bindings)]_vars

(***************************************************************************)
(* Properties of controller identification.                                *)
(***************************************************************************)
\* The vendor and product tokens of the call's raw id.
call_ids == parse_controller_id(ident_call.id_)

\* The Vendor/Product Database has an entry for the pair ids.
has_entry(ids) ==
    /\ ids[1] \in DOMAIN controller_ids
    /\ ids[2] \in DOMAIN controller_ids[ids[1]]

\* identify_controller resolved by the database entry `name`: the pair for a
\* catalogue name, None for "invalid", otherwise the free-text rules.
resolved_by_entry(name) ==
    IF name \in CONTROLLERS
    THEN ident_ret.value
           = <<name, name \o " (" \o ToString(ident_call.buttons) \o " buttons)">>
    ELSE IF name = "invalid" THEN ident_ret.value = None
    ELSE ident_ret.step = "free-text"

\* C13 as claimed, for the three-argument call: whenever the raw id yields a
\* vendor and a product token and the database has an entry for the pair,
\* identify_controller resolves by that entry, whatever other text the id has.
C13_DatabaseEntryWins ==
    (ident_ret.done /\ ~ident_call.ebd /\ has_entry(call_ids))
        => resolved_by_entry(controller_ids[call_ids[1]][call_ids[2]])

\* C13 as amended: the same, for ids whose text does not contain "8bitdo" in
\* any case unless the vendor is 2dc8, and calls to which no 8BitDo override
\* applies.
C13_DatabaseEntryWinsUnless8BitDo ==
    (/\ ident_ret.done
     /\ has_entry(call_ids)
     /\ ~(ident_call.ebd /\ call_ids \in {<<"054c", "05c4">>, <<"045e", "028e">>,
                                          <<"045e", "02e0">>})
     /\ (call_ids[1] = "2dc8" \/ ~contains(lower(ident_call.id_), "8bitdo")))
        => resolved_by_entry(controller_ids[call_ids[1]][call_ids[2]])

\* C13 witness: the id's text names a DualSense, its tokens are those of the
\* database's DualShock 4, and the call returned the DualShock 4 pair.
C13_Witness ==
    /\ ident_ret.done
    /\ contains(lower(ident_call.id_), "dualsense")
    /\ call_ids = <<"054c", "05c4">>
    /\ ident_ret.value = <<"DualShock 4", "DualShock 4 (18 buttons)">>

\* C14: identify("Vendor: 054c Product: 05c4", 18, 4), called with these three
\* arguments, resolves to the 8BitDo Pro variant.
C14_OverrideFor054c05c4 ==
    (/\ ident_ret.done
     /\ ident_call.id_ = "Vendor: 054c Product: 05c4"
     /\ ident_call.buttons = 18 /\ ident_call.num_axes = 4
     /\ ~ident_call.ebd)
        => /\ ident_ret.value # None
           /\ SubSeq(ident_ret.value[1], 1, 10) = "8BitDo Pro"

\* C15: when the call is not rejected as a duplicate, not resolved by the
\* vendor and product steps, and enters no free-text branch, the name returned
\* is the raw id itself and the second element is the id followed by
\* " (N buttons)".
C15_FallbackIsRawId ==
    (ident_ret.done /\ ident_ret.step = "free-text" /\ ident_ret.rule = "none")
        => ident_ret.value
             = <<ident_call.id_,
                 ident_call.id_ \o " (" \o ToString(ident_call.buttons) \o " buttons)">>

\* C16: a raw id that reaches the Sony branch and contains "dualsense" is named
\* "DualSense" for every reported button count.
C16_DualSenseWins ==
    (/\ ident_ret.done
     /\ ident_ret.rule = "sony"
     /\ contains(lower(ident_call.id_), "dualsense"))
        => ident_ret.value[1] = "DualSense"

\* C18: a raw id that reaches the Joy-Con/Switch branch is named "Switch Pro"
\* when it contains "pro", "Joy-Con Left" when it contains "left",
\* "Joy-Con Right" when it contains "right" (each taken alone), and "Joy-Con"
\* only when it contains none of them.
C18_JoyConNames ==
    (ident_ret.done /\ ident_ret.rule = "joycon") =>
        LET pro == contains(lower(ident_call.id_), "pro")
            left == contains(lower(ident_call.id_), "left")
            right == contains(lower(ident_call.id_), "right")
        IN /\ (pro /\ ~left /\ ~right) => ident_ret.value[1] = "Switch Pro"
           /\ (left /\ ~pro /\ ~right) => ident_ret.value[1] = "Joy-Con Left"
           /\ (right /\ ~pro /\ ~left) => ident_ret.value[1] = "Joy-Con Right"
           /\ ident_ret.value[1] = "Joy-Con" => ~(pro \/ left \/ right)

(***************************************************************************)
(* Properties of profile validation.                                       *)
(***************************************************************************)
\* The document fails structural validation in one of the ways C12 lists.
fails_validation(profile) ==
    \/ \E i \in DOMAIN required_keys : required_keys[i] \notin DOMAIN profile
    \/ \E state \in DOMAIN profile["bindings"] :
          \/ state \notin State_args
          \/ profile["bindings"][state].type # "dict"
    \/ profile["controller"] \notin CONTROLLERS

\* C12: for a document that lacks one of the required keys, has a state key
\* outside utils.State, a binding value that is not a mapping, or an unknown
\* controller, profile_is_valid returns False without raising, and
\* get_profile_list skips the document without raising.
C12_InvalidReturnsFalse ==
    (valid_ret.done /\ fails_validation(valid_call.profile))
        => /\ valid_ret.err = "none"
           /\ valid_ret.value = FALSE
           /\ valid_ret.list = [names |-> {}, err |-> "none"]

(***************************************************************************)
(* Properties of the legacy conversion.                                    *)
(***************************************************************************)
\* The action the saved bindings hold for (state, t), "" when none.
saved_action(saved, state, t) ==
    IF state \in DOMAIN saved
    THEN IF t \in DOMAIN saved[state] THEN saved[state][t] ELSE NoAction
    ELSE NoAction

\* C17: convert_profile saves the list-wrapped bindings as direct mappings; for
\* every index some state bound to "mod" the saved profile binds
\* "Toggle Quick Select" at the all layer for that index; no "mod" remains; and
\* every other binding is the legacy one.
C17_ModBecomesQuickSelect ==
    conv_ret.done =>
        LET legacy == flatten(conv_call.bindings)
            mods == {k[2] : k \in mod_keys(legacy)}
        IN /\ conv_ret.saved
           /\ \A t \in mods :
                saved_action(conv_ret.bindings, "all", t) = "Toggle Quick Select"
           /\ \A state \in DOMAIN conv_ret.bindings :
                \A t \in DOMAIN conv_ret.bindings[state] :
                    conv_ret.bindings[state][t] # "mod"
           /\ \A state \in DOMAIN legacy : \A t \in DOMAIN legacy[state] :
                (legacy[state][t] # "mod" /\ ~(state = "all" /\ t \in mods))
                    => saved_action(conv_ret.bindings, state, t) = legacy[state][t]

====
